---------------------------- MODULE Spec2Model ----------------------------
(***************************************************************************)
(* A model of solana-client-ext: the caching account loader                *)
(* (state/rollup_account_loader.rs), the simulation channel and its        *)
(* analysis pipeline (state/rollup_channel.rs, state/return_struct.rs) and *)
(* the compute-budget optimizer (lib.rs).                                  *)
(*                                                                         *)
(* Strings built with format! are modelled as sequences of word tokens so  *)
(* that "contains" is decided by the text actually produced.               *)
(***************************************************************************)
EXTENDS Integers, Sequences, FiniteSets, TLC

VARIABLES
    \* ---- RollUpAccountLoader (one instance, shared by the threads) ----
    cache,        \* RwLock<HashMap<Pubkey, AccountSharedData>>: the map
    readers,      \* threads holding the RwLock in shared mode
    writer,       \* thread holding the RwLock in exclusive mode, or "none"
    pc,           \* per thread: position inside get_account_shared_data
    key,          \* per thread: the pubkey argument of the running call
    fetched,      \* per thread: the local `account` after the RPC answered
    ext,          \* per thread: RPC get_account calls made by the call
    ret,          \* per thread: value returned by the last finished call
    prior,        \* per thread: result of the first finished get of `key`,
                  \*             as known when the call started
    firstRes,     \* per key: result of the first finished get of that key
    raced,        \* per key: two gets of the key have overlapped in time
    nGets,        \* number of get calls started so far
    \* ---- RollUpChannel: one call and what it produced ----
    op,                  \* the operation that ran last ("none" before any)
    transactions,        \* the `transactions` argument
    config,              \* the AnalysisConfig argument
    processing_results,  \* what the engine answered for the batch
    fee_answers,         \* per position, what the fee-market RPC would answer
    fee_calls,           \* positions for which the fee estimator was called
    return_results,      \* Vec<RawSimulationResult> returned by simulate
    analysis_results,    \* Vec<SimulationAnalysisResult> returned by analyze
    \* ---- RollUpChannel: the object ----
    tagged_results,      \* HashMap<String, Vec<SimulationAnalysisResult>>
    tag_calls,           \* per tag: the outputs of the calls made with it
    repeated,            \* the last call had the inputs of the one before
    nCalls,              \* process_transactions_with_analysis calls so far
    \* ---- RpcClientExt: the caller's transaction/message and one call ----
    message,             \* account_keys and instructions, mutated in place
    before,              \* the message as it was when the last call began
    opt_op,              \* the optimizer entry point that ran last
    estimate,            \* the u64 estimate the last call obtained, if any
    opt_return,          \* Result<u32, _> the last call returned
    nOpt,                \* estimate and optimize calls so far
    sim_results,         \* raw results of the local simulation the call ran
    rpc_simulation,      \* the response to the network simulation it ran
    \* ---- TaggedAnalysisClient: the object and its last call ----
    tagged_results_store, \* HashMap<String, Vec<SimulationAnalysisResult>>
    client_return,        \* Result<Vec<SimulationAnalysisResult>, _>
    nAnalyze,             \* analyze_transactions calls so far
    \* ---- RpcClientExtAsync::estimate_priority_fee_for_cu: one call ----
    fee_op,               \* "none" before the call, "estimate" after it
    fee_accounts,         \* the `accounts` argument: None or Some(addresses)
    fee_cu,               \* the `cu` argument
    scoped_fees,          \* what get_recent_prioritization_fees(addrs) answers
    unscoped_fees,        \* what get_recent_prioritization_fees(&[]) answers
    fee_return            \* Result<u64> the call returned

loaderVars == <<cache, readers, writer, pc, key, fetched, ext, ret, prior,
                firstRes, raced, nGets>>

callVars == <<op, transactions, config, processing_results, fee_answers,
              fee_calls, return_results, analysis_results>>

channelVars == <<tagged_results, tag_calls, repeated, nCalls>>

optVars == <<message, before, opt_op, estimate, opt_return, nOpt,
             sim_results, rpc_simulation>>

clientVars == <<tagged_results_store, client_return, nAnalyze>>

feeVars == <<fee_op, fee_accounts, fee_cu, scoped_fees, unscoped_fees,
             fee_return>>

vars == <<cache, readers, writer, pc, key, fetched, ext, ret, prior,
          firstRes, raced, nGets,
          op, transactions, config, processing_results, fee_answers,
          fee_calls, return_results, analysis_results,
          tagged_results, tag_calls, repeated, nCalls,
          message, before, opt_op, estimate, opt_return, nOpt,
          sim_results, rpc_simulation,
          tagged_results_store, client_return, nAnalyze,
          fee_op, fee_accounts, fee_cu, scoped_fees, unscoped_fees,
          fee_return>>

---------------------------------------------------------------------------
(* Bounds and input sets                                                   *)

MaxGets == 4

Threads   == {"t1", "t2"}
Keys      == {"k1", "k2"}
Snapshots == {"d1", "d2"}
None      == "None"
Unfetched == "Unfetched"

\* What rpc_client.get_account(pubkey) can answer: an account or an error
\* (not found, transport error).
RpcAnswers == Snapshots \cup {"RpcErr"}

---------------------------------------------------------------------------
(* RollUpAccountLoader                                                     *)

\* HashMap::get
MapGet(m, k) == IF k \in DOMAIN m THEN m[k] ELSE None

\* A loader that forgets to cache what it fetched.
MapInsertDropped(m, k, v) == m

\* HashMap::insert: adds the key or replaces the value stored under it.
MapInsert(m, k, v) ==
    [x \in DOMAIN m \cup {k} |-> IF x = k THEN v ELSE m[x]]

\* RollUpAccountLoader::new
LoaderFresh ==
    /\ cache = <<>>
    /\ readers = {}
    /\ writer = "none"
    /\ pc = [t \in Threads |-> "idle"]
    /\ key = [t \in Threads |-> "k1"]
    /\ fetched = [t \in Threads |-> None]
    /\ ext = [t \in Threads |-> 0]
    /\ ret = [t \in Threads |-> None]
    /\ prior = [t \in Threads |-> Unfetched]
    /\ firstRes = [k \in Keys |-> Unfetched]
    /\ raced = [k \in Keys |-> FALSE]
    /\ nGets = 0

InFlight(t) == pc[t] \notin {"idle", "done"}

\* The call returns `v`: the thread is done, and the first result of the key
\* is remembered.
Return(t, v) ==
    /\ pc' = [pc EXCEPT ![t] = "done"]
    /\ ret' = [ret EXCEPT ![t] = v]
    /\ firstRes' = [firstRes EXCEPT ![key[t]] =
                        IF @ = Unfetched THEN v ELSE @]

\* A caller enters get_account_shared_data(pubkey).
GetStart(t, k) ==
    /\ ~InFlight(t)
    /\ nGets < MaxGets
    /\ nGets' = nGets + 1
    /\ pc' = [pc EXCEPT ![t] = "read_lock"]
    /\ key' = [key EXCEPT ![t] = k]
    /\ ext' = [ext EXCEPT ![t] = 0]
    /\ fetched' = [fetched EXCEPT ![t] = None]
    /\ prior' = [prior EXCEPT ![t] = firstRes[k]]
    /\ raced' = [raced EXCEPT ![k] =
                    @ \/ \E u \in Threads \ {t} : InFlight(u) /\ key[u] = k]
    /\ UNCHANGED <<cache, readers, writer, ret, firstRes>>
    /\ UNCHANGED <<callVars, channelVars, optVars, clientVars, feeVars>>

\* self.cache.read(): blocks while a writer holds the lock.
ReadLock(t) ==
    /\ pc[t] = "read_lock"
    /\ writer = "none"
    /\ readers' = readers \cup {t}
    /\ pc' = [pc EXCEPT ![t] = "lookup"]
    /\ UNCHANGED <<cache, writer, key, fetched, ext, ret, prior, firstRes,
                   raced, nGets>>
    /\ UNCHANGED <<callVars, channelVars, optVars, clientVars, feeVars>>

\* A lookup that keeps the read guard alive across the fetch after a miss.
CacheLookupKeepsGuard(t) ==
    /\ pc[t] = "lookup"
    /\ IF MapGet(cache, key[t]) # None
       THEN /\ Return(t, MapGet(cache, key[t]))
            /\ readers' = readers \ {t}
       ELSE /\ pc' = [pc EXCEPT ![t] = "rpc"]
            /\ UNCHANGED <<readers, ret, firstRes>>
    /\ UNCHANGED <<cache, writer, key, fetched, ext, prior, raced, nGets>>
    /\ UNCHANGED <<callVars, channelVars, optVars, clientVars, feeVars>>

\* .get(pubkey) under the read guard; the guard is a temporary of the
\* `if let` and is dropped when the statement ends, on a hit and on a miss.
CacheLookup(t) ==
    /\ pc[t] = "lookup"
    /\ readers' = readers \ {t}
    /\ IF MapGet(cache, key[t]) # None
       THEN Return(t, MapGet(cache, key[t]))
       ELSE /\ pc' = [pc EXCEPT ![t] = "rpc"]
            /\ UNCHANGED <<ret, firstRes>>
    /\ UNCHANGED <<cache, writer, key, fetched, ext, prior, raced, nGets>>
    /\ UNCHANGED <<callVars, channelVars, optVars, clientVars, feeVars>>

\* A fetch that, on an error, caches an empty account before returning None.
RpcFetchCachesError(t, ans) ==
    /\ pc[t] = "rpc"
    /\ ext' = [ext EXCEPT ![t] = @ + 1]
    /\ IF ans = "RpcErr"
       THEN /\ Return(t, None)
            /\ cache' = MapInsert(cache, key[t], "d1")
            /\ UNCHANGED fetched
       ELSE /\ fetched' = [fetched EXCEPT ![t] = ans]
            /\ pc' = [pc EXCEPT ![t] = "write_lock"]
            /\ UNCHANGED <<cache, ret, firstRes>>
    /\ UNCHANGED <<readers, writer, key, prior, raced, nGets>>
    /\ UNCHANGED <<callVars, channelVars, optVars, clientVars, feeVars>>

\* self.rpc_client.get_account(pubkey).ok()? : an error returns None.
RpcFetch(t, ans) ==
    /\ pc[t] = "rpc"
    /\ ext' = [ext EXCEPT ![t] = @ + 1]
    /\ IF ans = "RpcErr"
       THEN /\ Return(t, None)
            /\ UNCHANGED fetched
       ELSE /\ fetched' = [fetched EXCEPT ![t] = ans]
            /\ pc' = [pc EXCEPT ![t] = "write_lock"]
            /\ UNCHANGED <<ret, firstRes>>
    /\ UNCHANGED <<cache, readers, writer, key, prior, raced, nGets>>
    /\ UNCHANGED <<callVars, channelVars, optVars, clientVars, feeVars>>

\* self.cache.write(): blocks while any reader or writer holds the lock.
WriteLock(t) ==
    /\ pc[t] = "write_lock"
    /\ writer = "none"
    /\ readers = {}
    /\ writer' = t
    /\ pc' = [pc EXCEPT ![t] = "insert"]
    /\ UNCHANGED <<cache, readers, key, fetched, ext, ret, prior, firstRes,
                   raced, nGets>>
    /\ UNCHANGED <<callVars, channelVars, optVars, clientVars, feeVars>>

\* .insert(*pubkey, account.clone()); the guard is dropped; Some(account).
CacheInsert(t) ==
    /\ pc[t] = "insert"
    /\ cache' = MapInsert(cache, key[t], fetched[t])
    /\ writer' = "none"
    /\ Return(t, fetched[t])
    /\ UNCHANGED <<readers, key, fetched, ext, prior, raced, nGets>>
    /\ UNCHANGED <<callVars, channelVars, optVars, clientVars, feeVars>>

LoaderNext ==
    \/ \E t \in Threads, k \in Keys : GetStart(t, k)
    \/ \E t \in Threads : ReadLock(t)
    \/ \E t \in Threads : CacheLookup(t)
    \/ \E t \in Threads, ans \in RpcAnswers : RpcFetch(t, ans)
    \/ \E t \in Threads : WriteLock(t)
    \/ \E t \in Threads : CacheInsert(t)

---------------------------------------------------------------------------
(* Text                                                                    *)

\* A String is the sequence of its words and punctuation marks;
\* str.contains(word) for a single word.
Contains(str, word) == \E n \in 1..Len(str) : str[n] = word

\* Option<T>: None is the empty sequence, Some(x) the sequence holding x.
NoneOpt == <<>>
Some(x) == <<x>>

---------------------------------------------------------------------------
(* Inputs of a channel call                                                *)

MaxBatch == 2

Txs == {"txA", "txB"}

SeqsUpTo(S, n) == UNION {[1..m -> S] : m \in 0..n}

Batches == SeqsUpTo(Txs, MaxBatch)

\* AnalysisConfig
Tags == {"t", "u"}

Configs ==
    [estimate_compute_units : BOOLEAN,
     calculate_priority_fee : BOOLEAN,
     tag : {NoneOpt} \cup {Some(g) : g \in Tags}]

\* AnalysisConfig::default()
DefaultConfig ==
    [estimate_compute_units |-> FALSE,
     calculate_priority_fee |-> FALSE,
     tag |-> NoneOpt]

\* One entry of the engine's processing_results:
\*   Ok(Executed{executed_units, status, log_messages}), Ok(FeesOnly{load_error})
\*   or Err(err).
UnitValues == {0, 5}

Executed(units, ok, logs) ==
    [kind |-> "Executed", units |-> units, ok |-> ok,
     err |-> IF ok THEN "" ELSE "InstructionError", logs |-> logs]

FeesOnlyOutcome ==
    [kind |-> "FeesOnly", units |-> 0, ok |-> FALSE,
     err |-> "InsufficientFundsForRent", logs |-> NoneOpt]

RejectedOutcome ==
    [kind |-> "Rejected", units |-> 0, ok |-> FALSE,
     err |-> "AccountNotFound", logs |-> NoneOpt]

LogOptions == {NoneOpt, Some(<<"Program", "log", ":", "boom">>)}

Outcomes ==
    {Executed(u, TRUE, NoneOpt) : u \in UnitValues}
        \cup {Executed(u, FALSE, l) : u \in UnitValues, l \in LogOptions}
        \cup {FeesOnlyOutcome, RejectedOutcome}

\* The engine answers one outcome per sanitized transaction (check_results has
\* transactions.len() entries); the empty answer is the case line 181 guards.
EngineAnswers(txs) == [1..Len(txs) -> Outcomes] \cup {<<>>}

\* get_recent_prioritization_fees: an RPC error, or the observed fee rates.
FeeMarketAnswers ==
    {[ok |-> FALSE, fees |-> <<>>],
     [ok |-> TRUE, fees |-> <<>>],
     [ok |-> TRUE, fees |-> <<1000000, 3000000>>]}

---------------------------------------------------------------------------
(* state/return_struct.rs                                                  *)

\* A success constructor that drops the consumed units.
base_success_zero(cu) ==
    [success |-> TRUE,
     cu |-> 0,
     result |-> <<"Base", "simulation", "executed", "successfully", "with",
                  ToString(cu), "compute", "units">>,
     prioritization_fee_details |-> NoneOpt]

\* RawSimulationResult::base_success
base_success(cu) ==
    [success |-> TRUE,
     cu |-> cu,
     result |-> <<"Base", "simulation", "executed", "successfully", "with",
                  ToString(cu), "compute", "units">>,
     prioritization_fee_details |-> NoneOpt]

\* A failure constructor copied from base_success with the flag left set.
base_failure_flag_set(error) ==
    [success |-> TRUE,
     cu |-> 0,
     result |-> error,
     prioritization_fee_details |-> NoneOpt]

\* RawSimulationResult::base_failure
base_failure(error) ==
    [success |-> FALSE,
     cu |-> 0,
     result |-> error,
     prioritization_fee_details |-> NoneOpt]

\* RawSimulationResult::base_no_results
base_no_results ==
    [success |-> FALSE,
     cu |-> 0,
     result |-> <<"No", "base", "simulation", "results", "returned">>,
     prioritization_fee_details |-> NoneOpt]

\* PrioritizationFeeDetails::default()
PrioritizationFeeDetailsDefault ==
    [fee_per_cu_micro_lamports |-> 0,
     total_fee_lamports |-> 0,
     error_message |-> NoneOpt]

---------------------------------------------------------------------------
(* Priority-fee estimate used by the channel                               *)

MicroLamportsPerLamport == 1000000

RECURSIVE MaxOf(_)
\* fees.iter().map(|f| f.prioritization_fee).max().unwrap_or(0)
MaxOf(fees) ==
    IF fees = <<>> THEN 0
    ELSE LET m == MaxOf(Tail(fees))
         IN  IF Head(fees) > m THEN Head(fees) ELSE m

\* estimate_priority_fee_for_cu_sync(Some(accounts), cu): the rate and the
\* total, or the RPC's error.
EstimatePriorityFeeForCuSync(answer, cu) ==
    IF ~answer.ok
    THEN [ok |-> FALSE, fee_per_cu_micro_lamports |-> 0,
          total_fee_lamports |-> 0]
    ELSE [ok |-> TRUE,
          fee_per_cu_micro_lamports |-> MaxOf(answer.fees),
          total_fee_lamports |->
              (MaxOf(answer.fees) * cu) \div MicroLamportsPerLamport]

---------------------------------------------------------------------------
(* RollUpChannel::simulate_transactions_raw                                *)

\* let executed_cu = match transaction_result { Ok(Executed(tx)) => units, _ => 0 }
ExecutedCu(r) == IF r.kind = "Executed" THEN r.units ELSE 0

\* if analysis_config.calculate_priority_fee && executed_cu > 0
FeeRequested(cfg, r) == cfg.calculate_priority_fee /\ ExecutedCu(r) > 0

\* The fee_details local after the estimator answered.
FeeDetails(cfg, r, answer) ==
    IF ~FeeRequested(cfg, r) THEN NoneOpt
    ELSE LET e == EstimatePriorityFeeForCuSync(answer, ExecutedCu(r))
         IN  IF e.ok
             THEN Some([fee_per_cu_micro_lamports |-> e.fee_per_cu_micro_lamports,
                        total_fee_lamports |-> e.total_fee_lamports,
                        error_message |-> NoneOpt])
             ELSE Some([PrioritizationFeeDetailsDefault EXCEPT
                          !.error_message =
                              Some(<<"Failed", "to", "estimate", "priority",
                                     "fee", ":", "RpcError">>)])

\* logs.map(|l| l.join("\n")).unwrap_or_default()
LogText(logs) == IF logs = NoneOpt THEN <<>> ELSE logs[1]

\* The three failure messages; i is the position, 0-based in the text.
ExecFailureText(i, r) ==
    <<"Transaction", ToString(i - 1), "failed", "with", "error", ":", r.err,
      "Logs", ":">> \o LogText(r.logs)

FeesOnlyText(i, r) ==
    <<"Transaction", ToString(i - 1), "failed", "with", "error", ":", r.err,
      ".", "Only", "fees", "were", "charged", ".">>

RejectedText(i, r) ==
    <<"Transaction", ToString(i - 1), "failed", ":", r.err>>

\* A classification that reports the units an executed transaction used
\* before it failed.
BaseResultCarriesUnits(i, r) ==
    IF r.kind = "Executed"
    THEN IF r.ok THEN base_success(r.units)
         ELSE [base_failure(ExecFailureText(i, r)) EXCEPT !.cu = r.units]
    ELSE IF r.kind = "FeesOnly" THEN base_failure(FeesOnlyText(i, r))
    ELSE base_failure(RejectedText(i, r))

\* The match that builds tx_result for position i, before the fee details
\* are attached.
BaseResult(i, r) ==
    IF r.kind = "Executed"
    THEN IF r.ok THEN base_success(r.units)
         ELSE base_failure(ExecFailureText(i, r))
    ELSE IF r.kind = "FeesOnly" THEN base_failure(FeesOnlyText(i, r))
    ELSE base_failure(RejectedText(i, r))

\* A loop that turns a fee-estimation error into a failed transaction.
TxResultFeeErrorFails(i, r, fee_details) ==
    IF fee_details # NoneOpt /\ fee_details[1].error_message # NoneOpt
    THEN [base_failure(fee_details[1].error_message[1]) EXCEPT
             !.prioritization_fee_details = fee_details]
    ELSE [BaseResult(i, r) EXCEPT !.prioritization_fee_details = fee_details]

\* tx_result with res.prioritization_fee_details = fee_details.
TxResult(i, r, fee_details) ==
    [BaseResult(i, r) EXCEPT !.prioritization_fee_details = fee_details]

\* The positions for which the loop calls the fee estimator.
FeeCalls(cfg, results) ==
    {i \in 1..Len(results) : FeeRequested(cfg, results[i])}

\* A simulate that lacks the fallback.
WithoutFallback(txs, rr) == rr

\* The fallback pushed when nothing was returned for a non-empty batch.
WithFallback(txs, rr) ==
    IF rr = <<>> /\ txs # <<>> THEN <<base_no_results>> ELSE rr

\* simulate_transactions_raw(transactions, analysis_config), the engine
\* having answered `results` and the fee market `fees`.
SimulateTransactionsRaw(txs, cfg, results, fees) ==
    WithFallback(txs,
        [i \in 1..Len(results) |->
            TxResult(i, results[i], FeeDetails(cfg, results[i], fees[i]))])

\* A caller runs simulate_transactions_raw on the drawn inputs.
SimulateCall ==
    /\ op = "none"
    /\ op' = "simulate"
    /\ fee_calls' = FeeCalls(config, processing_results)
    /\ return_results' =
           SimulateTransactionsRaw(transactions, config, processing_results,
                                   fee_answers)
    /\ UNCHANGED <<transactions, config, processing_results, fee_answers,
                   analysis_results>>
    /\ UNCHANGED <<loaderVars, channelVars, optVars, clientVars, feeVars>>

---------------------------------------------------------------------------
(* RollUpChannel::process_transactions_with_analysis, get_tagged_results   *)

MaxCalls == 2

PlaceholderText ==
    <<"Priority", "fee", "details", "not", "available", "or", "calculation",
      "skipped", ".">>

\* A compute-units entry that reports the failure in its detail only.
ComputeUnitsEntryNoTopLevel(raw_res) ==
    [base_simulation_success |-> raw_res.success,
     analysis_type |-> "compute_units",
     details |->
         [variant |-> "ComputeUnits",
          cu_consumed |-> raw_res.cu,
          logs |-> NoneOpt,
          error_message |->
              IF raw_res.success THEN NoneOpt ELSE Some(raw_res.result)],
     top_level_error_message |-> NoneOpt]

\* The entry pushed when config.estimate_compute_units is set.
ComputeUnitsEntry(raw_res) ==
    [base_simulation_success |-> raw_res.success,
     analysis_type |-> "compute_units",
     details |->
         [variant |-> "ComputeUnits",
          cu_consumed |-> raw_res.cu,
          logs |-> NoneOpt,
          error_message |->
              IF raw_res.success THEN NoneOpt ELSE Some(raw_res.result)],
     top_level_error_message |->
         IF raw_res.success THEN NoneOpt ELSE Some(raw_res.result)]

\* An or_else that drops its fallback.
OrElseNothing(opt, other) == opt

\* details.error_message.clone().or_else(|| base failure message)
OrElse(opt, other) == IF opt # NoneOpt THEN opt ELSE other

\* The entry pushed when config.calculate_priority_fee is set.
PriorityFeeEntry(raw_res) ==
    IF raw_res.prioritization_fee_details # NoneOpt
    THEN LET details == raw_res.prioritization_fee_details[1]
         IN  [base_simulation_success |-> raw_res.success,
              analysis_type |-> "priority_fee",
              details |->
                  [variant |-> "PriorityFee",
                   fee_per_cu_micro_lamports |->
                       details.fee_per_cu_micro_lamports,
                   total_fee_lamports |-> details.total_fee_lamports,
                   error_message |-> details.error_message],
              top_level_error_message |->
                  OrElse(details.error_message,
                         IF ~raw_res.success THEN Some(raw_res.result)
                         ELSE NoneOpt)]
    ELSE [base_simulation_success |-> raw_res.success,
          analysis_type |-> "priority_fee",
          details |->
              [variant |-> "PriorityFee",
               fee_per_cu_micro_lamports |->
                   PrioritizationFeeDetailsDefault.fee_per_cu_micro_lamports,
               total_fee_lamports |->
                   PrioritizationFeeDetailsDefault.total_fee_lamports,
               error_message |-> Some(PlaceholderText)],
          top_level_error_message |-> Some(PlaceholderText)]

\* A loop that pushes a priority-fee entry only when a detail is attached.
EntriesForSkipMissing(raw_res, cfg) ==
    (IF cfg.estimate_compute_units THEN <<ComputeUnitsEntry(raw_res)>>
     ELSE <<>>)
        \o (IF cfg.calculate_priority_fee
               /\ raw_res.prioritization_fee_details # NoneOpt
            THEN <<PriorityFeeEntry(raw_res)>>
            ELSE <<>>)

\* The entries one raw result contributes, in the order they are pushed.
EntriesFor(raw_res, cfg) ==
    (IF cfg.estimate_compute_units THEN <<ComputeUnitsEntry(raw_res)>>
     ELSE <<>>)
        \o (IF cfg.calculate_priority_fee THEN <<PriorityFeeEntry(raw_res)>>
            ELSE <<>>)

RECURSIVE AnalysisResults(_, _)
\* The loop over raw_simulation_results.
AnalysisResults(raw, cfg) ==
    IF raw = <<>> THEN <<>>
    ELSE EntriesFor(Head(raw), cfg) \o AnalysisResults(Tail(raw), cfg)

\* A store that replaces what a tag held.
StoreTaggedOverwrite(store, tag, out) ==
    IF tag = NoneOpt \/ out = <<>> THEN store
    ELSE MapInsert(store, tag[1], out)

\* A store that files untagged results under the empty tag.
StoreTaggedDefaultTag(store, tag, out) ==
    IF out = <<>> THEN store
    ELSE LET g == IF tag = NoneOpt THEN "" ELSE tag[1]
         IN  MapInsert(store, g,
                       (IF g \in DOMAIN store THEN store[g] ELSE <<>>) \o out)

\* A store that files the results of a tagged call even when there are none.
StoreTaggedAlways(store, tag, out) ==
    IF tag = NoneOpt THEN store
    ELSE MapInsert(store, tag[1],
                   (IF tag[1] \in DOMAIN store THEN store[tag[1]] ELSE <<>>)
                       \o out)

\* A store that puts the new results in front of the stored ones.
StoreTaggedPrepend(store, tag, out) ==
    IF tag = NoneOpt \/ out = <<>> THEN store
    ELSE MapInsert(store, tag[1],
                   out \o (IF tag[1] \in DOMAIN store THEN store[tag[1]]
                           ELSE <<>>))

\* if let Some(tag_str) = &config.tag { if !analysis_results.is_empty() {
\*     self.tagged_results.entry(tag).or_default().extend(results) } }
StoreTagged(store, tag, out) ==
    IF tag = NoneOpt \/ out = <<>> THEN store
    ELSE MapInsert(store, tag[1],
                   (IF tag[1] \in DOMAIN store THEN store[tag[1]] ELSE <<>>)
                       \o out)

\* get_tagged_results(tag): self.tagged_results.get(tag)
get_tagged_results(store, tag) ==
    IF tag \in DOMAIN store THEN Some(store[tag]) ELSE NoneOpt

\* RollUpChannel::new
ChannelFresh ==
    /\ tagged_results = <<>>
    /\ tag_calls = [g \in Tags |-> <<>>]
    /\ repeated = FALSE
    /\ nCalls = 0

\* Inputs of the repeated calls: an empty batch, one transaction, two
\* transactions; the engine executes or rejects each transaction; the fee
\* market answers.
ChanBatches == {<<>>, <<"txA">>, <<"txA", "txB">>}

ChanOutcomes == {Executed(5, TRUE, NoneOpt), RejectedOutcome}

ChanEngineAnswers(txs) == [1..Len(txs) -> ChanOutcomes]

OkFeeAnswer == [ok |-> TRUE, fees |-> <<1000000, 3000000>>]

ChanFeeAnswers(txs) == [i \in 1..Len(txs) |-> OkFeeAnswer]

\* Tags a caller may ask get_tagged_results for.
GetTags == Tags \cup {"non_existent_tag"}

\* A caller runs process_transactions_with_analysis(transactions, config).
ProcessCall(txs, cfg, results, fees) ==
    LET raw == SimulateTransactionsRaw(txs, cfg, results, fees)
        out == AnalysisResults(raw, cfg)
    IN  /\ nCalls < MaxCalls
        /\ nCalls' = nCalls + 1
        /\ op' = "analyze"
        /\ transactions' = txs
        /\ config' = cfg
        /\ processing_results' = results
        /\ fee_answers' = fees
        /\ fee_calls' = FeeCalls(cfg, results)
        /\ return_results' = raw
        /\ analysis_results' = out
        /\ tagged_results' = StoreTagged(tagged_results, cfg.tag, out)
        /\ tag_calls' = IF cfg.tag = NoneOpt THEN tag_calls
                        ELSE [tag_calls EXCEPT ![cfg.tag[1]] = Append(@, out)]
        /\ repeated' = /\ op = "analyze"
                       /\ txs = transactions
                       /\ cfg = config
                       /\ results = processing_results
                       /\ fees = fee_answers
        /\ UNCHANGED <<loaderVars, optVars, clientVars, feeVars>>

\* A caller runs process_transactions_with_analysis once, on the drawn inputs.
AnalyzeOnce ==
    /\ op = "none"
    /\ ProcessCall(transactions, config, processing_results, fee_answers)

---------------------------------------------------------------------------
(* RpcClientExt: estimate_compute_units_*, optimize_compute_units_*        *)

MaxOptimize == 2

\* TLC's integers end at 2^31 - 1, so the u64 and u32 values of this section
\* are held as <<hi, lo>>, standing for hi * 2^16 + lo with lo < 2^16.  A
\* value fits a u32 exactly when hi < 2^16 as well.
Half == 65536

Wide(hi, lo) == <<hi, lo>>

\* u32::MAX
U32Max == Wide(Half - 1, Half - 1)

\* u32::try_from(x).is_ok()
FitsU32(x) == x[1] < Half

\* A conversion that clamps to u32::MAX instead of dropping the high bits.
AsU32Clamped(x) == IF x[1] < Half THEN x ELSE Wide(Half - 1, Half - 1)

\* `x as u32` of a u64: the low 32 bits
AsU32(x) == Wide(x[1] % Half, x[2])

\* An addition that wraps around instead of saturating.
WrappingAddU32(a, b) ==
    LET lo == a[2] + b[2]
        hi == a[1] + b[1] + (lo \div Half)
    IN  Wide(hi % Half, lo % Half)

\* u32::saturating_add
SaturatingAddU32(a, b) ==
    LET lo == a[2] + b[2]
        hi == a[1] + b[1] + (lo \div Half)
    IN  IF hi >= Half THEN U32Max ELSE Wide(hi, lo % Half)

\* the margin added by optimize_compute_units_msg
MsgMargin == 150

\* solana_sdk::compute_budget::id()
ComputeBudgetId == "ComputeBudget111111111111111111111111111111"

\* A Result: Ok(value) or Err(err).
Ok(v) == [ok |-> TRUE, value |-> v, err |-> <<>>]
Err(e) == [ok |-> FALSE, value |-> <<>>, err |-> e]
NoReturn == Err(<<"not", "called">>)

\* CompiledInstruction: the index of its program in account_keys (0-based)
\* and its data.
Instruction(idx, kind, units) ==
    [program_id_index |-> idx, kind |-> kind, units |-> units]

\* The messages a caller starts from: a transfer, a transfer that already
\* carries a compute-budget instruction, and a message without instructions.
InitMessages ==
    {[account_keys |-> <<"payer", "dest", "System">>,
      instructions |-> <<Instruction(2, "Transfer", Wide(0, 0))>>],
     [account_keys |-> <<"payer", "dest", "System", ComputeBudgetId>>,
      instructions |-> <<Instruction(2, "Transfer", Wide(0, 0)),
                         Instruction(3, "SetComputeUnitPrice", Wide(0, 1))>>],
     [account_keys |-> <<"payer">>, instructions |-> <<>>]}

\* keys.iter().position(|k| k == key): the first index holding the key.
Position(keys, k) ==
    (CHOOSE n \in 1..Len(keys) :
        keys[n] = k /\ \A j \in 1..(n - 1) : keys[j] # k) - 1

\* Message::compile_instruction for ComputeBudgetInstruction::set_compute_unit_limit
CompileSetLimit(keys, units) ==
    Instruction(Position(keys, ComputeBudgetId), "SetComputeUnitLimit", units)

\* An insertion behind the instructions already there.
InsertLast(seq, x) == Append(seq, x)

\* Vec::insert(0, x)
InsertFirst(seq, x) == <<x>> \o seq

\* account_keys.push(compute_budget::id()); compile_instruction;
\* instructions.insert(0, compiled_ix)
WithLimitInstruction(msg, units) ==
    LET keys == Append(msg.account_keys, ComputeBudgetId)
    IN  [account_keys |-> keys,
         instructions |->
             InsertFirst(msg.instructions, CompileSetLimit(keys, units))]

RECURSIVE SuccessCus(_)
\* for res in raw_results { if res.success { cus.push(res.cu) } .. }
SuccessCus(raw) ==
    IF raw = <<>> THEN <<>>
    ELSE (IF Head(raw).success THEN <<Head(raw).cu>> ELSE <<>>)
             \o SuccessCus(Tail(raw))

RECURSIVE ErrorMessages(_)
\* .. else { error_messages.push(res.result) } joined by "\n"
ErrorMessages(raw) ==
    IF raw = <<>> THEN <<>>
    ELSE (IF Head(raw).success THEN <<>> ELSE Head(raw).result)
             \o ErrorMessages(Tail(raw))

\* channel.simulate_transactions_raw(&[transaction.clone()])
LocalSimulation(results) ==
    SimulateTransactionsRaw(<<"txA">>, DefaultConfig, results, <<OkFeeAnswer>>)

\* An estimate that skips the failed results instead of reporting them.
EstimateIgnoringFailures(results) == Ok(SuccessCus(LocalSimulation(results)))

\* estimate_compute_units_unsigned_tx(transaction, signers), the engine
\* having answered `results` for the one-transaction batch.
EstimateComputeUnitsUnsignedTx(results) ==
    LET raw == LocalSimulation(results)
    IN  IF \E n \in 1..Len(raw) : ~raw[n].success
        THEN Err(<<"Transaction", "simulation", "failed", ":">>
                     \o ErrorMessages(raw))
        ELSE Ok(SuccessCus(raw))

\* What the RPC node answers to get_latest_blockhash and
\* simulate_transaction_with_config: a transport error, or a response with
\* value.units_consumed and value.err.
RpcResponse(ok, units_consumed, err) ==
    [ok |-> ok, units_consumed |-> units_consumed, err |-> err]

\* No network simulation was run.
NoResponse == RpcResponse(FALSE, NoneOpt, NoneOpt)

\* estimate_compute_units_msg(message, signers)
EstimateComputeUnitsMsg(resp) ==
    IF ~resp.ok THEN Err(<<"RpcError">>)
    ELSE IF resp.units_consumed = NoneOpt
    THEN Err(<<"Missing", "Compute", "Units", "from", "transaction",
               "simulation", ".">>)
    ELSE IF resp.units_consumed[1] = Wide(0, 0) /\ resp.err # NoneOpt
    THEN Err(<<"Transaction", "simulation", "failed", ":", resp.err[1]>>)
    ELSE Ok(resp.units_consumed[1])

\* Estimates the engine and the RPC node can report (u64).
\* 0, 5, 2^32 - 100, 2^31 + 7, u32::MAX and 2^32 + 5
OptUnitValues ==
    {Wide(0, 0), Wide(0, 5), Wide(Half - 1, Half - 100), Wide(Half \div 2, 7),
     U32Max, Wide(Half, 5)}

OptEngineAnswers ==
    {<<Executed(u, TRUE, NoneOpt)>> : u \in OptUnitValues}
        \cup {<<Executed(Wide(0, 5), FALSE, NoneOpt)>>,
              <<[FeesOnlyOutcome EXCEPT !.units = Wide(0, 0)]>>,
              <<[RejectedOutcome EXCEPT !.units = Wide(0, 0)]>>,
              <<>>}

RpcSimulations ==
    {RpcResponse(FALSE, NoneOpt, NoneOpt)}
        \cup {RpcResponse(TRUE, u, e) :
                 u \in {NoneOpt} \cup {Some(x) : x \in OptUnitValues},
                 e \in {NoneOpt, Some("InstructionError")}}

\* No optimizer call has been made; the caller holds no message.
OptIdle ==
    /\ message = [account_keys |-> <<>>, instructions |-> <<>>]
    /\ before = message
    /\ opt_op = "none"
    /\ estimate = NoneOpt
    /\ opt_return = NoReturn
    /\ nOpt = 0
    /\ sim_results = <<>>
    /\ rpc_simulation = NoResponse

\* A caller runs estimate_compute_units_unsigned_tx(transaction, signers).
EstimateUnsignedTxCall(results) ==
    LET est == EstimateComputeUnitsUnsignedTx(results)
    IN  /\ nOpt < MaxOptimize
        /\ nOpt' = nOpt + 1
        /\ opt_op' = "estimate_unsigned_tx"
        /\ before' = message
        /\ message' = message
        /\ sim_results' = LocalSimulation(results)
        /\ rpc_simulation' = NoResponse
        /\ estimate' = IF est.ok /\ est.value # <<>> THEN Some(est.value[1])
                       ELSE NoneOpt
        /\ opt_return' = est
        /\ UNCHANGED <<loaderVars, callVars, channelVars, clientVars,
                     feeVars>>

\* A caller runs estimate_compute_units_msg(message, signers).
EstimateMsgCall(resp) ==
    LET est == EstimateComputeUnitsMsg(resp)
    IN  /\ nOpt < MaxOptimize
        /\ nOpt' = nOpt + 1
        /\ opt_op' = "estimate_msg"
        /\ before' = message
        /\ message' = message
        /\ sim_results' = <<>>
        /\ rpc_simulation' = resp
        /\ estimate' = IF est.ok THEN Some(est.value) ELSE NoneOpt
        /\ opt_return' = est
        /\ UNCHANGED <<loaderVars, callVars, channelVars, clientVars,
                     feeVars>>

\* optimize_compute_units_unsigned_tx(transaction, signers)
OptimizeUnsignedTxCall(results) ==
    LET est == EstimateComputeUnitsUnsignedTx(results)
    IN  /\ nOpt < MaxOptimize
        /\ nOpt' = nOpt + 1
        /\ opt_op' = "unsigned_tx"
        /\ before' = message
        /\ sim_results' = LocalSimulation(results)
        /\ rpc_simulation' = NoResponse
        /\ IF ~est.ok
           THEN /\ estimate' = NoneOpt
                /\ opt_return' = Err(est.err)
                /\ message' = message
           ELSE IF est.value = <<>>
           THEN /\ estimate' = NoneOpt
                /\ opt_return' = Err(<<"CU", "estimation", "returned", "no",
                                       "results", ".">>)
                /\ message' = message
           ELSE LET optimal_cu == AsU32(est.value[1])
                IN  /\ estimate' = Some(est.value[1])
                    /\ message' = WithLimitInstruction(message,
                                      SaturatingAddU32(optimal_cu, optimal_cu))
                    /\ opt_return' = Ok(optimal_cu)
        /\ UNCHANGED <<loaderVars, callVars, channelVars, clientVars,
                     feeVars>>

\* An optimizer that appends the program id before it knows the estimate.
OptimizeMsgCallPushFirst(resp) ==
    LET est == EstimateComputeUnitsMsg(resp)
        pushed == [message EXCEPT
                      !.account_keys = Append(@, ComputeBudgetId)]
    IN  /\ nOpt < MaxOptimize
        /\ nOpt' = nOpt + 1
        /\ opt_op' = "msg"
        /\ before' = message
        /\ sim_results' = <<>>
        /\ rpc_simulation' = resp
        /\ IF ~est.ok
           THEN /\ estimate' = NoneOpt
                /\ opt_return' = Err(est.err)
                /\ message' = pushed
           ELSE IF ~FitsU32(est.value)
           THEN /\ estimate' = Some(est.value)
                /\ opt_return' = Err(<<"TryFromIntError">>)
                /\ message' = pushed
           ELSE /\ estimate' = Some(est.value)
                /\ message' = WithLimitInstruction(message,
                                  SaturatingAddU32(est.value,
                                                   Wide(0, MsgMargin)))
                /\ opt_return' = Ok(est.value)
        /\ UNCHANGED <<loaderVars, callVars, channelVars, clientVars,
                     feeVars>>

\* optimize_compute_units_msg(message, signers)
OptimizeMsgCall(resp) ==
    LET est == EstimateComputeUnitsMsg(resp)
    IN  /\ nOpt < MaxOptimize
        /\ nOpt' = nOpt + 1
        /\ opt_op' = "msg"
        /\ before' = message
        /\ sim_results' = <<>>
        /\ rpc_simulation' = resp
        /\ IF ~est.ok
           THEN /\ estimate' = NoneOpt
                /\ opt_return' = Err(est.err)
                /\ message' = message
           ELSE IF ~FitsU32(est.value)
           THEN /\ estimate' = Some(est.value)
                /\ opt_return' = Err(<<"TryFromIntError">>)
                /\ message' = message
           ELSE /\ estimate' = Some(est.value)
                /\ message' = WithLimitInstruction(message,
                                  SaturatingAddU32(est.value,
                                                   Wide(0, MsgMargin)))
                /\ opt_return' = Ok(est.value)
        /\ UNCHANGED <<loaderVars, callVars, channelVars, clientVars,
                     feeVars>>

---------------------------------------------------------------------------
(* RpcClientExtAsync::estimate_priority_fee_for_cu                         *)

\* The u64 and u128 values of this function exceed TLC's integers, so they
\* are held as their bytes, least significant first: 8 bytes for a u64, 16
\* for a u128.  The arithmetic below is the machine's, byte by byte.
Byte == 256
U64Bytes == 8
U128Bytes == 16

\* The u64 of a small number (below 2^31).
U64Of(n) ==
    [i \in 1..U64Bytes |->
        IF i <= 3 THEN (n \div (Byte ^ (i - 1))) % Byte
        ELSE IF i = 4 THEN n \div (Byte ^ 3)
        ELSE 0]

\* The u64 2^k, k < 64.
U64Pow2(k) ==
    [i \in 1..U64Bytes |-> IF i = (k \div 8) + 1 THEN 2 ^ (k % 8) ELSE 0]

\* u64::MAX
U64Max == [i \in 1..U64Bytes |-> Byte - 1]

\* `x as u128` of a u64: zero extension
AsU128(x) == [i \in 1..U128Bytes |-> IF i <= U64Bytes THEN x[i] ELSE 0]

\* A narrowing that clamps to u64::MAX instead of dropping the high bits.
AsU64Clamped(x) ==
    IF \E i \in (U64Bytes + 1)..U128Bytes : x[i] # 0
    THEN [i \in 1..U64Bytes |-> Byte - 1]
    ELSE [i \in 1..U64Bytes |-> x[i]]

\* `x as u64` of a u128: the low 64 bits
AsU64(x) == [i \in 1..U64Bytes |-> x[i]]

RECURSIVE WideLess(_, _, _)
\* a < b on the bytes i..1, the most significant compared first
WideLess(a, b, i) ==
    IF i = 0 THEN FALSE
    ELSE IF a[i] # b[i] THEN a[i] < b[i]
    ELSE WideLess(a, b, i - 1)

RECURSIVE ColumnSum(_, _, _, _)
\* The sum of a[i] * b[k - i + 1] over the byte positions i..1 of a.
ColumnSum(a, b, k, i) ==
    IF i = 0 THEN 0
    ELSE (IF k - i + 1 \in 1..Len(b) THEN a[i] * b[k - i + 1] ELSE 0)
             + ColumnSum(a, b, k, i - 1)

RECURSIVE Carried(_, _, _, _)
\* The bytes k..U128Bytes of a * b, given the carry out of column k - 1.
Carried(a, b, k, carry) ==
    IF k > U128Bytes THEN <<>>
    ELSE LET col == ColumnSum(a, b, k, Len(a)) + carry
         IN  <<col % Byte>> \o Carried(a, b, k + 1, col \div Byte)

\* a as u128 * b as u128 for u64 a and b: the product fits 128 bits.
MulU128(a, b) == Carried(a, b, 1, 0)

RECURSIVE DivFrom(_, _, _, _)
\* The bytes 1..i of x / d, given the remainder left by the bytes above i.
DivFrom(x, d, i, rem) ==
    IF i = 0 THEN <<>>
    ELSE LET cur == rem * Byte + x[i]
         IN  Append(DivFrom(x, d, i - 1, cur % d), cur \div d)

\* x / d for a u128 x and a small d: integer division
DivU128(x, d) == DivFrom(x, d, U128Bytes, 0)

RECURSIVE MaxRate(_)
\* fees.iter().map(|f| f.prioritization_fee).max().unwrap_or(0)
MaxRate(fees) ==
    IF fees = <<>> THEN U64Of(0)
    ELSE LET m == MaxRate(Tail(fees))
         IN  IF WideLess(m, Head(fees), U64Bytes) THEN Head(fees) ELSE m

\* estimate_priority_fee_for_cu(accounts, cu), the RPC node answering
\* `scoped` to the query for the accounts and `unscoped` to the empty query.
EstimatePriorityFeeForCu(accounts, cu, scoped, unscoped) ==
    LET answer == IF accounts # NoneOpt THEN scoped ELSE unscoped
    IN  IF ~answer.ok THEN Err(<<"RpcError">>)
        ELSE LET best_fee_per_cu_micro == MaxRate(answer.fees)
                 total_lamports ==
                     DivU128(MulU128(best_fee_per_cu_micro, cu),
                             MicroLamportsPerLamport)
             IN  Ok(AsU64(total_lamports))

\* What the RPC node may answer to get_recent_prioritization_fees: an error
\* or the observed rates; and the budgets a caller may ask for.
FeeObservations ==
    {[ok |-> FALSE, fees |-> <<>>],
     [ok |-> TRUE, fees |-> <<>>],
     [ok |-> TRUE, fees |-> <<U64Of(1)>>],
     [ok |-> TRUE, fees |-> <<U64Of(1500000), U64Of(3000000), U64Of(1)>>],
     [ok |-> TRUE, fees |-> <<U64Pow2(40), U64Of(3000000)>>],
     [ok |-> TRUE, fees |-> <<U64Of(1500000), U64Max>>]}

FeeBudgets == {U64Of(0), U64Of(1), U64Of(5), U64Pow2(44), U64Max}

FeeAccountArgs == {NoneOpt, Some(<<"k1">>)}

\* No estimate has been asked for.
FeeIdle ==
    /\ fee_op = "none"
    /\ fee_accounts = NoneOpt
    /\ fee_cu = U64Of(0)
    /\ scoped_fees = [ok |-> TRUE, fees |-> <<>>]
    /\ unscoped_fees = [ok |-> TRUE, fees |-> <<>>]
    /\ fee_return = NoReturn

\* A caller awaits estimate_priority_fee_for_cu on the drawn inputs.
EstimateFeeCall ==
    /\ fee_op = "none"
    /\ fee_op' = "estimate"
    /\ fee_return' = EstimatePriorityFeeForCu(fee_accounts, fee_cu,
                                              scoped_fees, unscoped_fees)
    /\ UNCHANGED <<fee_accounts, fee_cu, scoped_fees, unscoped_fees>>
    /\ UNCHANGED <<loaderVars, callVars, channelVars, optVars, clientVars>>

---------------------------------------------------------------------------
(* TaggedAnalysisClient                                                    *)

\* TaggedAnalysisClient::new
ClientFresh ==
    /\ tagged_results_store = <<>>
    /\ client_return = NoReturn
    /\ nAnalyze = 0

\* A test that escalates as soon as one entry failed.
AnyFailed(out) == \E n \in 1..Len(out) : ~out[n].base_simulation_success

\* !analysis_results.is_empty()
\*     && analysis_results.iter().all(|r| !r.base_simulation_success)
AllFailed(out) ==
    /\ out # <<>>
    /\ \A n \in 1..Len(out) : ~out[n].base_simulation_success

\* r.top_level_error_message.unwrap_or_else(|| "Unknown simulation error")
TopLevelOrUnknown(e) ==
    IF e.top_level_error_message # NoneOpt THEN e.top_level_error_message[1]
    ELSE <<"Unknown", "simulation", "error">>

RECURSIVE JoinMessages(_)
\* .collect::<Vec<String>>().join("; ")
JoinMessages(out) ==
    IF out = <<>> THEN <<>>
    ELSE IF Len(out) = 1 THEN TopLevelOrUnknown(out[1])
    ELSE TopLevelOrUnknown(out[1]) \o <<";">> \o JoinMessages(Tail(out))

\* What analyze_transactions returns for the entries its channel produced.
ClientResult(out) ==
    IF AllFailed(out)
    THEN Err(<<"All", "transaction", "simulations", "failed", ":">>
                 \o JoinMessages(out))
    ELSE Ok(out)

\* A client that checks for aggregate failure before it files the entries.
AnalyzeTransactionsCallCheckFirst(txs, cfg, results, fees) ==
    LET raw == SimulateTransactionsRaw(txs, cfg, results, fees)
        out == AnalysisResults(raw, cfg)
    IN  /\ nAnalyze < MaxCalls
        /\ nAnalyze' = nAnalyze + 1
        /\ op' = "client_analyze"
        /\ transactions' = txs
        /\ config' = cfg
        /\ processing_results' = results
        /\ fee_answers' = fees
        /\ fee_calls' = FeeCalls(cfg, results)
        /\ return_results' = raw
        /\ analysis_results' = out
        /\ tagged_results_store' =
               IF AllFailed(out) THEN tagged_results_store
               ELSE StoreTagged(tagged_results_store, cfg.tag, out)
        /\ client_return' = ClientResult(out)
        /\ UNCHANGED <<loaderVars, channelVars, optVars, feeVars>>

\* analyze_transactions(transactions, config): a channel built for the call
\* runs process_transactions_with_analysis; the client files the entries in
\* its own store.
AnalyzeTransactionsCall(txs, cfg, results, fees) ==
    LET raw == SimulateTransactionsRaw(txs, cfg, results, fees)
        out == AnalysisResults(raw, cfg)
    IN  /\ nAnalyze < MaxCalls
        /\ nAnalyze' = nAnalyze + 1
        /\ op' = "client_analyze"
        /\ transactions' = txs
        /\ config' = cfg
        /\ processing_results' = results
        /\ fee_answers' = fees
        /\ fee_calls' = FeeCalls(cfg, results)
        /\ return_results' = raw
        /\ analysis_results' = out
        /\ tagged_results_store' = StoreTagged(tagged_results_store, cfg.tag, out)
        /\ client_return' = ClientResult(out)
        /\ UNCHANGED <<loaderVars, channelVars, optVars, feeVars>>

---------------------------------------------------------------------------
(* Specifications                                                          *)

\* No channel call has been made.
CallIdle ==
    /\ op = "none"
    /\ transactions = <<>>
    /\ config = DefaultConfig
    /\ processing_results = <<>>
    /\ fee_answers = <<>>
    /\ fee_calls = {}
    /\ return_results = <<>>
    /\ analysis_results = <<>>

\* Threads calling get_account_shared_data on one shared loader.
LoaderInit ==
    /\ LoaderFresh
    /\ CallIdle
    /\ ChannelFresh
    /\ OptIdle
    /\ ClientFresh
    /\ FeeIdle

SpecLoader == LoaderInit /\ [][LoaderNext]_vars

\* One call of simulate_transactions_raw on inputs drawn from the input sets.
SimInit ==
    /\ LoaderFresh
    /\ ChannelFresh
    /\ OptIdle
    /\ ClientFresh
    /\ FeeIdle
    /\ analysis_results = <<>>
    /\ op = "none"
    /\ transactions \in Batches
    /\ config \in Configs
    /\ processing_results \in EngineAnswers(transactions)
    /\ fee_answers \in [1..Len(transactions) -> FeeMarketAnswers]
    /\ fee_calls = {}
    /\ return_results = <<>>

SimNext ==
    \/ SimulateCall

Spec == SimInit /\ [][SimNext]_vars

\* A channel that is called several times, with and without tags.
ChannelInit ==
    /\ LoaderFresh
    /\ CallIdle
    /\ ChannelFresh
    /\ OptIdle
    /\ ClientFresh
    /\ FeeIdle

ChannelNext ==
    \/ \E txs \in ChanBatches, cfg \in Configs :
           \E results \in ChanEngineAnswers(txs) :
               ProcessCall(txs, cfg, results, ChanFeeAnswers(txs))

SpecChannel == ChannelInit /\ [][ChannelNext]_vars

\* One process_transactions_with_analysis call on a fresh channel, over every
\* batch, configuration, engine answer and fee-market answer.
SpecAnalyze == SimInit /\ [][AnalyzeOnce]_vars

\* A channel and a client, each with its own store, called in any order,
\* MaxCalls calls in all.
StoresNext ==
    \/ \E txs \in ChanBatches, cfg \in Configs :
           \E results \in ChanEngineAnswers(txs) :
               /\ nCalls + nAnalyze < MaxCalls
               /\ ProcessCall(txs, cfg, results, ChanFeeAnswers(txs))
    \/ \E txs \in ChanBatches, cfg \in Configs :
           \E results \in ChanEngineAnswers(txs) :
               /\ nCalls + nAnalyze < MaxCalls
               /\ AnalyzeTransactionsCall(txs, cfg, results,
                                          ChanFeeAnswers(txs))

SpecStores == ChannelInit /\ [][StoresNext]_vars

\* One estimate_priority_fee_for_cu call over every argument and RPC answer.
FeeInit ==
    /\ LoaderFresh
    /\ CallIdle
    /\ ChannelFresh
    /\ OptIdle
    /\ ClientFresh
    /\ fee_op = "none"
    /\ fee_accounts \in FeeAccountArgs
    /\ fee_cu \in FeeBudgets
    /\ scoped_fees \in FeeObservations
    /\ unscoped_fees \in FeeObservations
    /\ fee_return = NoReturn

SpecFee == FeeInit /\ [][EstimateFeeCall]_vars

\* A caller optimizing its transaction or message, possibly more than once.
OptInit ==
    /\ LoaderFresh
    /\ CallIdle
    /\ ChannelFresh
    /\ ClientFresh
    /\ FeeIdle
    /\ message \in InitMessages
    /\ before = message
    /\ opt_op = "none"
    /\ estimate = NoneOpt
    /\ opt_return = NoReturn
    /\ nOpt = 0
    /\ sim_results = <<>>
    /\ rpc_simulation = NoResponse

OptNext ==
    \/ \E results \in OptEngineAnswers : OptimizeUnsignedTxCall(results)
    \/ \E resp \in RpcSimulations : OptimizeMsgCall(resp)
    \/ \E results \in OptEngineAnswers : EstimateUnsignedTxCall(results)
    \/ \E resp \in RpcSimulations : EstimateMsgCall(resp)

SpecOpt == OptInit /\ [][OptNext]_vars

---------------------------------------------------------------------------
(* Claims about the loader                                                 *)

C17_FailedFetchNotCached ==
    /\ [](\A k \in DOMAIN cache : cache[k] \in Snapshots)
    /\ [][\A t \in Threads :
              /\ (pc[t] = "rpc" /\ pc'[t] = "done")
                     => /\ ret'[t] = None
                        /\ cache' = cache
                        /\ ext'[t] = 1
              /\ (pc[t] = "lookup" /\ pc'[t] # "lookup"
                      /\ key[t] \notin DOMAIN cache)
                     => pc'[t] = "rpc"]_vars

\* The first get of a key returned no snapshot; a later get of the key
\* fetched again and returned one.
C17_Witness ==
    \E t \in Threads :
        /\ pc[t] = "done"
        /\ prior[t] = None
        /\ ext[t] = 1
        /\ ret[t] \in Snapshots
        /\ MapGet(cache, key[t]) = ret[t]

\* C22: under any interleaving of concurrent gets a key is inserted into the
\* cache at most once, a cached key is never removed, and the snapshot cached
\* for it is never replaced by a different one.
C22_CachedSnapshotImmutable ==
    [][\A k \in DOMAIN cache :
           /\ k \in DOMAIN cache'
           /\ cache'[k] = cache[k]
           /\ \A t \in Threads :
                  (pc[t] = "insert" /\ pc'[t] = "done") => key[t] # k]_vars

\* C23: a get never holds the cache lock, shared or exclusive, while its
\* external fetch is in flight: the shared lock is held for the lookup only
\* and the exclusive lock for the insertion only, so while one get is in its
\* fetch another get is never kept from taking the lock by it.
C23_NoLockAcrossFetch ==
    /\ \A t \in Threads :
           /\ pc[t] = "rpc" => (t \notin readers /\ writer # t)
           /\ t \in readers <=> pc[t] = "lookup"
           /\ writer = t <=> pc[t] = "insert"
    /\ \A t, u \in Threads :
           (t # u /\ pc[t] = "rpc")
               => /\ pc[u] = "read_lock" => writer = "none"
                  /\ pc[u] = "write_lock"
                         => (writer = "none" /\ readers = {})

\* One get is in its fetch for k1 while another get, of k2, holds the
\* exclusive lock for its insertion.
C23_Witness ==
    \E t, u \in Threads :
        /\ pc[t] = "rpc"
        /\ key[t] = "k1"
        /\ pc[u] = "insert"
        /\ key[u] = "k2"
        /\ writer = u

---------------------------------------------------------------------------
(* Claims about simulate_transactions_raw                                  *)

Simulated == op = "simulate"

ExecutedOk(r) == r.kind = "Executed" /\ r.ok

\* C2: simulate returns one result per transaction, result i being the one of
\* transaction i (its success flag and consumed units are those of outcome i
\* and a failure text names position i); when the engine answers nothing for
\* a non-empty batch it returns exactly the one 'no results' entry, and for
\* an empty batch it returns the empty list.
C2_OneResultPerTransaction ==
    Simulated =>
        IF transactions = <<>> THEN return_results = <<>>
        ELSE IF processing_results = <<>>
        THEN /\ Len(return_results) = 1
             /\ ~return_results[1].success
             /\ return_results[1].result =
                    <<"No", "base", "simulation", "results", "returned">>
        ELSE /\ Len(return_results) = Len(transactions)
             /\ \A i \in 1..Len(transactions) :
                    /\ return_results[i].success
                           = ExecutedOk(processing_results[i])
                    /\ return_results[i].success
                           => return_results[i].cu = processing_results[i].units
                    /\ ~return_results[i].success
                           => return_results[i].result[2] = ToString(i - 1)

\* A two-transaction batch answered in full: a success, then a failure whose
\* text names position 1.
C2_Witness ==
    /\ Simulated
    /\ Len(transactions) = 2
    /\ Len(return_results) = 2
    /\ return_results[1].success
    /\ ~return_results[2].success
    /\ return_results[2].result[2] = "1"

\* C6: every transaction whose outcome is not 'executed with OK status'
\* (executed and failed, fees only, rejected) gets success = false, cu = 0 and
\* a result text containing "failed", whatever its siblings did.
C6_FailureClassified ==
    Simulated =>
        \A i \in 1..Len(processing_results) :
            ~ExecutedOk(processing_results[i])
                => /\ ~return_results[i].success
                   /\ return_results[i].cu = 0
                   /\ Contains(return_results[i].result, "failed")

\* A failed transaction beside a successful sibling.
C6_Witness ==
    /\ Simulated
    /\ Len(processing_results) = 2
    /\ ExecutedOk(processing_results[1])
    /\ processing_results[2].kind = "FeesOnly"
    /\ ~return_results[2].success
    /\ Contains(return_results[2].result, "failed")

\* C7: every transaction executed with OK status and c consumed units gets
\* success = true, cu = c and a result text containing "successfully",
\* whatever its siblings did.
C7_SuccessClassified ==
    Simulated =>
        \A i \in 1..Len(processing_results) :
            ExecutedOk(processing_results[i])
                => /\ return_results[i].success
                   /\ return_results[i].cu = processing_results[i].units
                   /\ Contains(return_results[i].result, "successfully")

\* A successful transaction with consumed units beside a rejected sibling.
C7_Witness ==
    /\ Simulated
    /\ Len(processing_results) = 2
    /\ processing_results[1].kind = "Rejected"
    /\ ExecutedOk(processing_results[2])
    /\ processing_results[2].units > 0
    /\ return_results[2].success
    /\ return_results[2].cu = processing_results[2].units

\* C8 as stated: a failed result has cu = 0, except that an executed-and-
\* failed transaction that consumed c > 0 units has cu = c.
C8_PartialConsumptionCarried ==
    Simulated =>
        \A i \in 1..Len(processing_results) :
            ~return_results[i].success
                => return_results[i].cu =
                       (IF processing_results[i].kind = "Executed"
                        THEN processing_results[i].units ELSE 0)

\* C8 (amended): every result simulate returns with success = false has
\* cu = 0, the 'no results' entry included; the units an executed-and-failed
\* transaction consumed are not carried.
C8_FailureHasZeroUnits ==
    Simulated =>
        \A i \in 1..Len(return_results) :
            ~return_results[i].success => return_results[i].cu = 0

\* An executed-and-failed transaction that consumed units is reported with 0.
C8_Witness ==
    /\ Simulated
    /\ \E i \in 1..Len(processing_results) :
           /\ processing_results[i].kind = "Executed"
           /\ ~processing_results[i].ok
           /\ processing_results[i].units > 0
           /\ ~return_results[i].success
           /\ return_results[i].cu = 0

\* C9: the fee estimator is called for a transaction, and a fee detail is
\* attached to its result, only if calculate_priority_fee is set and the
\* transaction was executed with OK status and consumed units > 0.
C9_FeeOnlyForSuccess ==
    Simulated =>
        \A i \in 1..Len(processing_results) :
            (i \in fee_calls
                \/ return_results[i].prioritization_fee_details # NoneOpt)
                => /\ config.calculate_priority_fee
                   /\ ExecutedOk(processing_results[i])
                   /\ processing_results[i].units > 0

\* C10: when the fee estimation of a transaction fails, the attached fee
\* detail has its error message set and both fee fields 0, the transaction's
\* success flag, cu and result text are what they are when the estimation
\* succeeds, and the siblings' results are the same.
C10_FeeErrorStaysLocal ==
    Simulated =>
        \A i \in fee_calls :
            ~fee_answers[i].ok
                => LET d == return_results[i].prioritization_fee_details
                       alt == SimulateTransactionsRaw(
                                  transactions, config, processing_results,
                                  [fee_answers EXCEPT ![i] = OkFeeAnswer])
                   IN  /\ d # NoneOpt
                       /\ d[1].error_message # NoneOpt
                       /\ d[1].fee_per_cu_micro_lamports = 0
                       /\ d[1].total_fee_lamports = 0
                       /\ return_results[i].success = alt[i].success
                       /\ return_results[i].cu = alt[i].cu
                       /\ return_results[i].result = alt[i].result
                       /\ \A j \in 1..Len(return_results) :
                              j # i => return_results[j] = alt[j]

\* The fee estimation failed for a successful transaction whose sibling's
\* estimation succeeded.
C10_Witness ==
    /\ Simulated
    /\ fee_calls = {1, 2}
    /\ ~fee_answers[1].ok
    /\ fee_answers[2].ok
    /\ return_results[1].success
    /\ return_results[1].prioritization_fee_details[1].error_message # NoneOpt
    /\ return_results[2].prioritization_fee_details[1].error_message = NoneOpt

---------------------------------------------------------------------------
(* Claims about process_transactions_with_analysis and the tagged store    *)

RECURSIVE Flatten(_)
Flatten(ss) == IF ss = <<>> THEN <<>> ELSE Head(ss) \o Flatten(Tail(ss))

\* The outputs of the calls made so far with tag g, in call order.
CallsWith(g) == IF g \in Tags THEN tag_calls[g] ELSE <<>>

\* What get_tagged_results(g) holds: the entries, none when absent.
StoredUnder(g) ==
    LET stored == get_tagged_results(tagged_results, g)
    IN  IF stored = NoneOpt THEN <<>> ELSE stored[1]

\* C3: after k calls with tag g the store holds under g the entries of those
\* calls, in call order and, within a call, in the order returned: k*m entries
\* when each call produced m; get_tagged_results of a tag never used is None,
\* and no tag ever holds an empty sequence.
C3_TagAccumulates ==
    \A g \in GetTags :
        LET calls == CallsWith(g)
        IN  /\ StoredUnder(g) = Flatten(calls)
            /\ (calls # <<>>
                   /\ \A c \in 1..Len(calls) : Len(calls[c]) = Len(calls[1]))
                   => Len(StoredUnder(g)) = Len(calls) * Len(calls[1])
            /\ calls = <<>> => get_tagged_results(tagged_results, g) = NoneOpt
            /\ get_tagged_results(tagged_results, g) # Some(<<>>)

\* Two calls with one tag, each producing two entries, the second call's
\* differing from the first's: four entries are stored.
C3_Witness ==
    \E g \in Tags :
        /\ Len(tag_calls[g]) = 2
        /\ Len(tag_calls[g][1]) = 2
        /\ Len(tag_calls[g][2]) = 2
        /\ tag_calls[g][1] # tag_calls[g][2]
        /\ Len(StoredUnder(g)) = 4

\* C4: a call whose config has no tag leaves the tagged store as it was, and
\* when it repeats the call before it (same transactions, same config, same
\* engine and fee-market answers) it returns the same entries.
C4_UntaggedCallIdempotent ==
    [][(nCalls' # nCalls /\ config'.tag = NoneOpt)
          => /\ tagged_results' = tagged_results
             /\ repeated' => analysis_results' = analysis_results]_vars

\* An untagged call that produced entries has been made twice in a row.
C4_Witness ==
    /\ nCalls = 2
    /\ repeated
    /\ config.tag = NoneOpt
    /\ Len(analysis_results) = 4

---------------------------------------------------------------------------
(* Claims about the optimizer                                              *)

\* The last call was one of the two optimize entry points.
Optimized == opt_op \in {"unsigned_tx", "msg"}

\* C5: when optimize succeeds on a transaction or message whose estimate is
\* U, the result has exactly one more instruction than before, the new
\* instruction is the SetComputeUnitLimit instruction and sits at position 0,
\* and the returned value equals U.
C5_OptimizeInsertsLimitFirst ==
    (Optimized /\ opt_return.ok)
        => /\ Len(message.instructions) = Len(before.instructions) + 1
           /\ message.instructions[1].kind = "SetComputeUnitLimit"
           /\ message.account_keys[message.instructions[1].program_id_index + 1]
                  = ComputeBudgetId
           /\ Tail(message.instructions) = before.instructions
           /\ estimate # NoneOpt
           /\ opt_return.value = estimate[1]

---------------------------------------------------------------------------
(* Claims about the entries of process_transactions_with_analysis          *)

Analyzed == op = "analyze"

\* Entries pushed per raw result under the configuration of the last call.
EntriesPerResult ==
    (IF config.estimate_compute_units THEN 1 ELSE 0)
        + (IF config.calculate_priority_fee THEN 1 ELSE 0)

\* The first and the last entry the i-th raw result contributed.
FirstEntryOf(i) == analysis_results[(i - 1) * EntriesPerResult + 1]
LastEntryOf(i) == analysis_results[i * EntriesPerResult]

\* C11: with estimate_compute_units set, the ComputeUnits entry of every raw
\* result r has cu_consumed = r.cu and base_simulation_success = r.success;
\* when r failed the detail's error_message and the top-level error both
\* equal r.result, and when r succeeded both are absent.
C11_ComputeUnitsEntryMirrorsRaw ==
    (Analyzed /\ config.estimate_compute_units)
        => \A i \in 1..Len(return_results) :
               LET r == return_results[i]
                   e == FirstEntryOf(i)
               IN  /\ e.analysis_type = "compute_units"
                   /\ e.details.variant = "ComputeUnits"
                   /\ e.details.cu_consumed = r.cu
                   /\ e.base_simulation_success = r.success
                   /\ ~r.success
                          => /\ e.details.error_message = Some(r.result)
                             /\ e.top_level_error_message = Some(r.result)
                   /\ r.success
                          => /\ e.details.error_message = NoneOpt
                             /\ e.top_level_error_message = NoneOpt

\* Both analyses on a success that consumed units followed by a failure.
C11_Witness ==
    /\ Analyzed
    /\ config.estimate_compute_units
    /\ config.calculate_priority_fee
    /\ Len(return_results) = 2
    /\ return_results[1].success
    /\ return_results[1].cu > 0
    /\ ~return_results[2].success
    /\ FirstEntryOf(1).details.cu_consumed = return_results[1].cu
    /\ FirstEntryOf(2).top_level_error_message = Some(return_results[2].result)

\* C12: with calculate_priority_fee set, a transaction whose base simulation
\* failed or consumed 0 units still gets a PriorityFee entry, whose detail
\* carries a non-empty error message and whose fee rate and total are zero.
C12_PlaceholderForFailedOrZero ==
    (Analyzed /\ config.calculate_priority_fee)
        => \A i \in 1..Len(return_results) :
               LET r == return_results[i]
                   e == LastEntryOf(i)
               IN  (~r.success \/ r.cu = 0)
                       => /\ e.analysis_type = "priority_fee"
                          /\ e.details.error_message # NoneOpt
                          /\ e.details.error_message # Some(<<>>)
                          /\ e.details.fee_per_cu_micro_lamports = 0
                          /\ e.details.total_fee_lamports = 0

\* C13: every raw result contributes, in order, one ComputeUnits entry when
\* estimate_compute_units is set and then one PriorityFee entry when
\* calculate_priority_fee is set, whatever the outcome of its transaction:
\* R raw results give 0, R or 2R entries.
C13_EntriesPerResultFixed ==
    Analyzed
        => /\ Len(analysis_results) = EntriesPerResult * Len(return_results)
           /\ \A i \in 1..Len(return_results) :
                  /\ config.estimate_compute_units
                         => /\ FirstEntryOf(i).analysis_type = "compute_units"
                            /\ FirstEntryOf(i).base_simulation_success
                                   = return_results[i].success
                  /\ config.calculate_priority_fee
                         => /\ LastEntryOf(i).analysis_type = "priority_fee"
                            /\ LastEntryOf(i).base_simulation_success
                                   = return_results[i].success

\* Two raw results, one failed without a fee detail, and four entries.
C13_Witness ==
    /\ Analyzed
    /\ config.estimate_compute_units
    /\ config.calculate_priority_fee
    /\ Len(return_results) = 2
    /\ return_results[1].success
    /\ ~return_results[2].success
    /\ return_results[2].prioritization_fee_details = NoneOpt
    /\ Len(analysis_results) = 4

---------------------------------------------------------------------------
(* Claims about the tagged stores                                          *)

\* C14: in the store of the channel and in the store of the client every tag
\* present maps to a non-empty sequence; a tagged call that produced no
\* entries leaves its tag absent.
C14_NoEmptyTagEntry ==
    /\ \A g \in DOMAIN tagged_results : tagged_results[g] # <<>>
    /\ \A g \in DOMAIN tagged_results_store : tagged_results_store[g] # <<>>
    /\ (op \in {"analyze", "client_analyze"} /\ config.tag # NoneOpt
            /\ analysis_results = <<>> /\ nCalls + nAnalyze = 1)
           => /\ get_tagged_results(tagged_results, config.tag[1]) = NoneOpt
              /\ get_tagged_results(tagged_results_store, config.tag[1])
                     = NoneOpt

\* The client filed entries under a tag; the channel was then called with
\* another tag on an empty batch and did not create it.
C14_Witness ==
    /\ nAnalyze = 1
    /\ nCalls = 1
    /\ op = "analyze"
    /\ config.tag # NoneOpt
    /\ transactions = <<>>
    /\ analysis_results = <<>>
    /\ tagged_results = <<>>
    /\ tagged_results_store # <<>>
    /\ config.tag[1] \notin DOMAIN tagged_results_store

IsPrefix(a, b) == Len(a) <= Len(b) /\ SubSeq(b, 1, Len(a)) = a

\* Every tag of `old` is in `new` with its sequence as a prefix, unchanged
\* unless it is the tag of the call; the call adds no tag but its own.
StoreExtended(old, new, tag) ==
    /\ \A g \in DOMAIN old :
           /\ g \in DOMAIN new
           /\ IsPrefix(old[g], new[g])
           /\ tag # Some(g) => new[g] = old[g]
    /\ \A g \in DOMAIN new : g \notin DOMAIN old => tag = Some(g)

\* C15: a call with tag t only extends the sequence stored under t, whose
\* previous contents stay as a prefix, and leaves every other tag as it was;
\* nothing is ever removed or reordered, and a call on one object leaves the
\* store of the other alone.
C15_StoreAppendOnly ==
    [][/\ StoreExtended(tagged_results, tagged_results', config'.tag)
       /\ StoreExtended(tagged_results_store, tagged_results_store',
                        config'.tag)
       /\ nCalls' = nCalls => tagged_results' = tagged_results
       /\ nAnalyze' = nAnalyze
              => tagged_results_store' = tagged_results_store]_vars

\* Two channel calls with one tag, the entries of the second call behind
\* those of the first.
C15_Witness ==
    \E g \in Tags :
        /\ nCalls = 2
        /\ Len(tag_calls[g]) = 2
        /\ tag_calls[g][1] # <<>>
        /\ tag_calls[g][2] # <<>>
        /\ tag_calls[g][1] # tag_calls[g][2]
        /\ tagged_results[g] = tag_calls[g][1] \o tag_calls[g][2]

---------------------------------------------------------------------------
(* Claims about estimate_priority_fee_for_cu                               *)

\* The answer to the query the call makes: the one scoped to the accounts
\* when accounts are given, the unscoped one otherwise.
FeeAnswerUsed == IF fee_accounts = NoneOpt THEN unscoped_fees ELSE scoped_fees

\* m is the largest of the observed rates, 0 when there are none.
IsMaxRate(m, fees) ==
    IF fees = <<>> THEN m = U64Of(0)
    ELSE /\ \E n \in 1..Len(fees) : fees[n] = m
         /\ \A n \in 1..Len(fees) : ~WideLess(m, fees[n], U64Bytes)

\* C16: estimate_priority_fee_for_cu(accounts, cu) returns
\* floor(max_rate * cu / 1_000_000), max_rate being the largest rate among
\* the observations returned for the accounts (the unscoped query when
\* accounts is None, 0 without observations).
C16_FeeIsScaledMaxRate ==
    (fee_op = "estimate" /\ FeeAnswerUsed.ok)
        => /\ fee_return.ok
           /\ \E n \in 0..Len(FeeAnswerUsed.fees) :
                  LET m == IF n = 0 THEN U64Of(0) ELSE FeeAnswerUsed.fees[n]
                  IN  /\ IsMaxRate(m, FeeAnswerUsed.fees)
                      /\ AsU128(fee_return.value)
                             = DivU128(MulU128(m, fee_cu),
                                       MicroLamportsPerLamport)

RECURSIVE CarryOut(_, _, _, _)
\* The carry out of the 128th bit of a * b: what a 128-bit product loses.
CarryOut(a, b, k, carry) ==
    IF k > 16 THEN carry
    ELSE CarryOut(a, b, k + 1, (ColumnSum(a, b, k, Len(a)) + carry) \div 256)

\* C28: max_rate * cu is computed in 128 bits and never overflows, but the
\* quotient by 1_000_000 is narrowed to 64 bits without a check: the call
\* returns floor(max_rate * cu / 1_000_000) mod 2^64, which differs from the
\* true total whenever the quotient exceeds 2^64 - 1.
C28_QuotientNarrowedUnchecked ==
    (fee_op = "estimate" /\ FeeAnswerUsed.ok)
        => \E n \in 0..Len(FeeAnswerUsed.fees) :
               LET m == IF n = 0 THEN U64Of(0) ELSE FeeAnswerUsed.fees[n]
                   quotient == DivU128(MulU128(m, fee_cu), 1000000)
               IN  /\ IsMaxRate(m, FeeAnswerUsed.fees)
                   /\ CarryOut(m, fee_cu, 1, 0) = 0
                   /\ fee_return.ok
                   /\ \A i \in 1..8 : fee_return.value[i] = quotient[i]
                   /\ Len(fee_return.value) = 8
                   /\ (\E i \in 9..16 : quotient[i] # 0)
                          <=> AsU128(fee_return.value) # quotient

\* max_rate = 2^40 and cu = 2^44: the quotient 19342813113834066795 does not
\* fit 64 bits and 896069040124515179 is returned.
C28_Witness ==
    /\ fee_op = "estimate"
    /\ FeeAnswerUsed.ok
    /\ IsMaxRate(U64Pow2(40), FeeAnswerUsed.fees)
    /\ fee_cu = U64Pow2(44)
    /\ fee_return = Ok(<<107, 211, 216, 94, 11, 122, 111, 12>>)

---------------------------------------------------------------------------
(* Claims about the account list and the errors of the optimizer           *)

\* The positions of the account list that hold the key.
Occurrences(keys, k) == {n \in 1..Len(keys) : keys[n] = k}

\* C18: optimize appends the compute-budget program id to the account list
\* only if it is absent: after a successful optimize the id occurs exactly
\* once, also when it was present before the call or optimize ran twice.
C18_ComputeBudgetIdOnce ==
    (Optimized /\ opt_return.ok)
        => Cardinality(Occurrences(message.account_keys, ComputeBudgetId)) = 1

\* C19: estimate_compute_units_unsigned_tx and
\* optimize_compute_units_unsigned_tx return an error whose message contains
\* "failed" whenever the local simulation yields a result with success =
\* false, the 'no results' entry included, and return Ok only when the
\* simulation result is a success.
C19_LocalFailureIsError ==
    opt_op \in {"estimate_unsigned_tx", "unsigned_tx"}
        => /\ (\E n \in 1..Len(sim_results) : ~sim_results[n].success)
                  => /\ ~opt_return.ok
                     /\ Contains(opt_return.err, "failed")
           /\ opt_return.ok
                  => /\ sim_results # <<>>
                     /\ \A n \in 1..Len(sim_results) : sim_results[n].success

\* The engine returned nothing for the transaction: optimize fails with the
\* message of the 'no results' entry and leaves the transaction alone.
C19_Witness ==
    /\ opt_op = "unsigned_tx"
    /\ sim_results = <<base_no_results>>
    /\ ~opt_return.ok
    /\ Contains(opt_return.err, "failed")
    /\ Contains(opt_return.err, "No")
    /\ message = before

\* C20: estimate_compute_units_msg returns Ok(consumed units) only when the
\* network simulation reported consumed units and no execution error, and
\* Err whenever the response carries an error, whatever the consumed units,
\* or lacks the consumed units.
C20_MsgEstimateOkOnlyWithoutError ==
    opt_op = "estimate_msg"
        => /\ opt_return.ok
                  <=> /\ rpc_simulation.ok
                      /\ rpc_simulation.units_consumed # NoneOpt
                      /\ rpc_simulation.err = NoneOpt
           /\ opt_return.ok
                  => opt_return.value = rpc_simulation.units_consumed[1]

---------------------------------------------------------------------------
(* Claims about TaggedAnalysisClient::analyze_transactions                 *)

ClientAnalyzed == op = "client_analyze"

\* The message of an entry as the aggregate error quotes it.
QuotedMessage(e) ==
    IF e.top_level_error_message = NoneOpt
    THEN <<"Unknown", "simulation", "error">>
    ELSE e.top_level_error_message[1]

AggregatePrefix == <<"All", "transaction", "simulations", "failed", ":">>

RECURSIVE QuoteEnd(_, _)
\* Where the quoted message of entry n ends inside the aggregate error: the
\* messages follow the prefix in entry order, one separator between two.
QuoteEnd(out, n) ==
    IF n = 0 THEN Len(AggregatePrefix)
    ELSE QuoteEnd(out, n - 1) + (IF n > 1 THEN 1 ELSE 0)
             + Len(QuotedMessage(out[n]))

\* C21: analyze_transactions returns an error exactly when the entry list is
\* non-empty and every entry has base_simulation_success = false; the error
\* then quotes the entries' messages in entry order; otherwise it returns Ok
\* with the whole entry list, failed entries included.
C21_ErrorIffAllFailed ==
    ClientAnalyzed
        => LET out == analysis_results
               allFailed ==
                   /\ Len(out) > 0
                   /\ \A n \in 1..Len(out) : ~out[n].base_simulation_success
           IN  /\ ~client_return.ok <=> allFailed
               /\ client_return.ok => client_return.value = out
               /\ ~client_return.ok
                      => /\ Len(client_return.err) = QuoteEnd(out, Len(out))
                         /\ SubSeq(client_return.err, 1, Len(AggregatePrefix))
                                = AggregatePrefix
                         /\ \A n \in 1..Len(out) :
                                /\ SubSeq(client_return.err,
                                          QuoteEnd(out, n)
                                              - Len(QuotedMessage(out[n])) + 1,
                                          QuoteEnd(out, n))
                                       = QuotedMessage(out[n])
                                /\ n > 1
                                       => client_return.err[
                                              QuoteEnd(out, n - 1) + 1] = ";"

\* A batch with one success and one failure comes back Ok with all entries.
C21_Witness ==
    /\ ClientAnalyzed
    /\ Len(analysis_results) = 4
    /\ analysis_results[1].base_simulation_success
    /\ ~analysis_results[3].base_simulation_success
    /\ client_return.ok
    /\ client_return.value = analysis_results

---------------------------------------------------------------------------
(* Claims about the inserted limit and the frame of the optimizer          *)

\* Exact sum, order and minimum of two values held as <<hi, lo>>.
WideSum(a, b) ==
    LET lo == a[2] + b[2]
    IN  Wide(a[1] + b[1] + (lo \div Half), lo % Half)

WideLeq(a, b) == a[1] < b[1] \/ (a[1] = b[1] /\ a[2] <= b[2])

WideMin(a, b) == IF WideLeq(a, b) THEN a ELSE b

\* The limit carried by the instruction at position 0.
InsertedLimit == message.instructions[1].units

\* C24: the limit written into the inserted instruction is the returned
\* estimate U plus a margin and never below U: min(2*U, 2^32-1) for
\* optimize_compute_units_unsigned_tx and min(U+150, 2^32-1) for
\* optimize_compute_units_msg, without wrap-around.
C24_LimitIsSaturatedMargin ==
    (Optimized /\ opt_return.ok)
        => LET U == opt_return.value
           IN  /\ WideLeq(U, InsertedLimit)
               /\ opt_op = "unsigned_tx"
                      => InsertedLimit = WideMin(WideSum(U, U), U32Max)
               /\ opt_op = "msg"
                      => InsertedLimit
                             = WideMin(WideSum(U, Wide(0, 150)), U32Max)

\* An estimate of 2^31 + 7, whose double does not fit 32 bits: the limit is
\* u32::MAX.
C24_Witness ==
    /\ opt_op = "unsigned_tx"
    /\ opt_return.ok
    /\ opt_return.value = Wide(Half \div 2, 7)
    /\ InsertedLimit = U32Max

\* C25: when optimize_compute_units_unsigned_tx or optimize_compute_units_msg
\* returns an error, the caller's transaction or message is exactly as it
\* was: no account key appended, no instruction inserted.
C25_ErrorLeavesMessage ==
    (Optimized /\ ~opt_return.ok) => message = before

\* A second optimize, of an already optimized message, fails because the
\* estimate does not fit 32 bits, and the message keeps its one inserted
\* instruction.
C25_Witness ==
    /\ opt_op = "msg"
    /\ nOpt = 2
    /\ opt_return = Err(<<"TryFromIntError">>)
    /\ estimate = Some(Wide(Half, 5))
    /\ Len(message.instructions) = 2
    /\ message.instructions[1].kind = "SetComputeUnitLimit"
    /\ message = before

\* C27: an estimate that does not fit 32 bits makes
\* optimize_compute_units_msg return a conversion error and change nothing,
\* while optimize_compute_units_unsigned_tx truncates it to its low 32 bits
\* (estimate mod 2^32) and uses and returns the truncated value.
C27_WideEstimateHandledDifferently ==
    (Optimized /\ estimate # NoneOpt /\ estimate[1][1] >= 65536)
        => LET low == Wide(estimate[1][1] % 65536, estimate[1][2])
           IN  /\ opt_op = "msg"
                      => /\ opt_return = Err(<<"TryFromIntError">>)
                         /\ message = before
               /\ opt_op = "unsigned_tx"
                      => /\ opt_return = Ok(low)
                         /\ Len(message.instructions)
                                = Len(before.instructions) + 1
                         /\ message.instructions[1].kind
                                = "SetComputeUnitLimit"
                         /\ InsertedLimit = WideMin(WideSum(low, low), U32Max)

\* An estimate of 2^32 + 5 on the unsigned-transaction path: 5 is returned
\* and the limit written is 10.
C27_Witness ==
    /\ opt_op = "unsigned_tx"
    /\ estimate = Some(Wide(65536, 5))
    /\ opt_return = Ok(Wide(0, 5))
    /\ InsertedLimit = Wide(0, 10)

\* C30: a successful optimize leaves the caller's instructions and account
\* keys as they were apart from position: the original instructions follow
\* the inserted one unchanged and in order, the original account keys keep
\* their indices with the new key appended behind them, and the program index
\* of the inserted instruction points at an account-list entry equal to the
\* compute-budget program id.
C30_OriginalContentsKept ==
    (Optimized /\ opt_return.ok)
        => LET n == Len(before.instructions)
               k == Len(before.account_keys)
           IN  /\ Len(message.instructions) = n + 1
               /\ \A i \in 1..n :
                      message.instructions[i + 1] = before.instructions[i]
               /\ Len(message.account_keys) = k + 1
               /\ \A i \in 1..k :
                      message.account_keys[i] = before.account_keys[i]
               /\ message.account_keys[k + 1] = ComputeBudgetId
               /\ message.instructions[1].program_id_index
                      \in 0..(Len(message.account_keys) - 1)
               /\ message.account_keys[
                      message.instructions[1].program_id_index + 1]
                      = ComputeBudgetId

\* A message that already named the compute-budget program: its two
\* instructions follow the inserted one, which points at the key that was
\* there before, index 3.
C30_Witness ==
    /\ Optimized
    /\ opt_return.ok
    /\ Len(before.instructions) = 2
    /\ before.instructions[2].kind = "SetComputeUnitPrice"
    /\ Len(message.instructions) = 3
    /\ message.instructions[3] = before.instructions[2]
    /\ message.instructions[1].program_id_index = 3
    /\ Len(message.account_keys) = 5

---------------------------------------------------------------------------
(* Claims about the client's store and the error messages of entries       *)

\* The entries the client holds under tag g, none when the tag is absent.
ClientStored(store, g) == IF g \in DOMAIN store THEN store[g] ELSE <<>>

\* C26: analyze_transactions files the entries before it checks for
\* aggregate failure: when a tagged call returns the 'All transaction
\* simulations failed' error, the store under that tag has grown by exactly
\* the entries of that call.
C26_StoredDespiteError ==
    [][(nAnalyze' # nAnalyze /\ ~client_return'.ok /\ config'.tag # NoneOpt)
          => /\ analysis_results' # <<>>
             /\ ClientStored(tagged_results_store', config'.tag[1])
                    = ClientStored(tagged_results_store, config'.tag[1])
                          \o analysis_results']_vars

\* A tag that already held entries; a second call with it failed as a whole
\* and its entries are stored behind them.
C26_Witness ==
    /\ ClientAnalyzed
    /\ nAnalyze = 2
    /\ ~client_return.ok
    /\ config.tag # NoneOpt
    /\ Len(analysis_results) = 2
    /\ Len(ClientStored(tagged_results_store, config.tag[1])) = 4
    /\ SubSeq(ClientStored(tagged_results_store, config.tag[1]), 3, 4)
           = analysis_results
    /\ ClientStored(tagged_results_store, config.tag[1])[1]
           .base_simulation_success

\* C29: every entry with base_simulation_success = false carries a top-level
\* error message: a ComputeUnits entry the base failure message, a
\* PriorityFee entry the error of its fee detail (the placeholder text when
\* no detail was attached), else the base failure message.  The 'Unknown
\* simulation error' fallback of analyze_transactions is therefore never
\* used on these entries.
C29_FailedEntryHasMessage ==
    Analyzed
        => /\ \A n \in 1..Len(analysis_results) :
                  ~analysis_results[n].base_simulation_success
                      => /\ analysis_results[n].top_level_error_message
                                # NoneOpt
                         /\ analysis_results[n].top_level_error_message[1]
                                # <<>>
           /\ \A i \in 1..Len(return_results) :
                  LET r == return_results[i]
                  IN  ~r.success
                          => /\ config.estimate_compute_units
                                    => FirstEntryOf(i).top_level_error_message
                                           = Some(r.result)
                             /\ config.calculate_priority_fee
                                    => LET e == LastEntryOf(i)
                                       IN  /\ e.top_level_error_message
                                                  = IF e.details.error_message
                                                           # NoneOpt
                                                    THEN e.details.error_message
                                                    ELSE Some(r.result)
                                           /\ r.prioritization_fee_details
                                                      = NoneOpt
                                                  => e.top_level_error_message
                                                         = Some(<<"Priority",
                                                             "fee", "details",
                                                             "not", "available",
                                                             "or", "calculation",
                                                             "skipped", ".">>)
           /\ ~Contains(ClientResult(analysis_results).err, "Unknown")

\* A failed transaction whose fee detail was attached without an error: its
\* PriorityFee entry carries the base failure message; the batch as a whole
\* failed.
C29_Witness ==
    /\ Analyzed
    /\ config.calculate_priority_fee
    /\ Len(return_results) = 1
    /\ ~return_results[1].success
    /\ return_results[1].prioritization_fee_details # NoneOpt
    /\ return_results[1].prioritization_fee_details[1].error_message = NoneOpt
    /\ LastEntryOf(1).top_level_error_message = Some(return_results[1].result)
    /\ ~ClientResult(analysis_results).ok

===========================================================================
